---- MODULE Spec2Model ----
(***************************************************************************)
(* A model of the virtual filesystem namespace of Flagship-Engine/VFS.     *)
(*                                                                         *)
(* Path text is a sequence of one-character strings, so that the string    *)
(* slicing of take_head (src/src/path.rs) and the segment filter of iter   *)
(* are modelled character by character.  The namespace tree is a sequence  *)
(* of Node records (src/src/lib.rs); mount and open are translated from    *)
(* VFS::mount, VirtualDir::mount, Node::mount and VirtualDir::open.        *)
(***************************************************************************)
EXTENDS Naturals, Sequences, FiniteSets

VARIABLES
    root,       \* VFS.root.nodes: the root VirtualDir (a sequence of Node)
    panicked,   \* TRUE once Node::mount has panicked (the process aborted)
    registry,   \* history: the mount calls made so far, <<[path, kind]>>
    last,       \* history: the last operation and what it returned
    pin,        \* the VfsPath a path function is applied to
    pout,       \* history: the last path function applied and its result
    inner,      \* a second VFS, N, until it is boxed and mounted in `root`
    ireg,       \* history: the mount calls made on N
    flat,       \* a third VFS, the flat namespace N's mounts are compared to
    flast       \* history: what the last open of `flat` returned

\* The state of the path functions and of the composed namespaces.
pvars == <<pin, pout>>
nvars == <<inner, ireg, flat, flast>>

vars == <<root, panicked, registry, last, pin, pout, inner, ireg, flat, flast>>

\* The most mount calls made on the namespace.
MaxMounts == 3

-----------------------------------------------------------------------------
(* src/src/path.rs                                                         *)

\* str::split('/') as used by VfsPath::iter: every '/'-delimited piece,
\* empty pieces included.
RECURSIVE split(_)
split(s) ==
    IF \A i \in 1..Len(s) : s[i] # "/"
    THEN <<s>>
    ELSE LET j == CHOOSE j \in 1..Len(s) :
                      s[j] = "/" /\ \A k \in 1..(j - 1) : s[k] # "/"
         IN  <<SubSeq(s, 1, j - 1)>> \o split(SubSeq(s, j + 1, Len(s)))

\* A filter that forgets !s.is_empty().
significant_not_dot(seg) == seg # <<".">>

\* The filter of VfsPath::iter: a segment is kept when it is not empty and
\* not ".".
significant(seg) == seg # <<>> /\ seg # <<".">>

\* VfsPath::iter
iter(s) == SelectSeq(split(s), significant)

\* A validate that rejects every path in which ".." occurs.
validate_substring(s) ==
    ~(\E i \in 1..(Len(s) - 1) : s[i] = "." /\ s[i + 1] = ".")

\* VfsPath::validate: Err(()) when some segment is "..", Ok(self) otherwise.
validate(s) == ~(\E i \in 1..Len(iter(s)) : iter(s)[i] = <<".", ".">>)

\* str::trim_start_matches('/')
RECURSIVE trim_start(_)
trim_start(s) ==
    IF s # <<>> /\ Head(s) = "/" THEN trim_start(Tail(s)) ELSE s

\* The byte offset, in s, of the first segment that iter(s) yields (the
\* slice `take` points into `trimmed`); only used when iter(s) is not empty.
RECURSIVE take_start(_)
take_start(s) ==
    LET first == Head(split(s))
    IN  IF significant(first) THEN 0
        ELSE Len(first) + 1 + take_start(SubSeq(s, Len(first) + 2, Len(s)))

\* An offset_in that forgets `+ substr.len()`.
offset_in_start(take, trimmed) == take_start(trimmed)

\* offset_in(take, trimmed) of take_head: where `take` ends in `trimmed`.
offset_in(take, trimmed) == take_start(trimmed) + Len(take)

\* A take_head without `tail.iter().next().map(|_| tail)`: the tail is
\* Some whenever there is a head, even with nothing significant in it.
take_head_any_tail(p) ==
    LET trimmed == trim_start(p)
        segs    == iter(trimmed)
    IN  IF segs = <<>>
        THEN [head |-> <<>>, some |-> FALSE, tail |-> <<>>]
        ELSE [head |-> Head(segs),
              some |-> TRUE,
              tail |-> SubSeq(trimmed, offset_in(Head(segs), trimmed) + 1,
                              Len(trimmed))]

\* VfsPath::take_head.  some = FALSE stands for a tail of None.
take_head(p) ==
    LET trimmed == trim_start(p)
        segs    == iter(trimmed)
    IN  IF segs = <<>>
        THEN [head |-> <<>>, some |-> FALSE, tail |-> <<>>]
        ELSE LET take == Head(segs)
                 tail == SubSeq(trimmed, offset_in(take, trimmed) + 1,
                                Len(trimmed))
             IN  [head |-> take,
                  some |-> iter(tail) # <<>>,
                  tail |-> IF iter(tail) # <<>> THEN tail ELSE <<>>]

\* A from_iter without `buf.truncate(buf.len() - 1)`.
RECURSIVE push_all(_, _)
from_iter_no_truncate(segs) ==
    IF segs = <<>> THEN <<"/">> ELSE push_all(<<"/">>, segs)

\* The loop of from_iter: buf.push_str(s); buf.push('/') for each s.
push_all(buf, segs) ==
    IF segs = <<>> THEN buf
    ELSE push_all(buf \o Head(segs) \o <<"/">>, Tail(segs))

\* FromIterator<&str> for VfsPathBuf: "/" alone for no segment, otherwise
\* every segment followed by '/', with the last '/' cut off.
from_iter(segs) ==
    IF segs = <<>> THEN <<"/">>
    ELSE LET buf == push_all(<<"/">>, segs)
         IN  SubSeq(buf, 1, Len(buf) - 1)

\* VfsPath::canonicalize: self.iter().collect()
canonicalize(p) == from_iter(iter(p))

-----------------------------------------------------------------------------
(* src/src/lib.rs: results, providers, nodes                               *)

\* io::Result<Box<dyn Read>>: Ok carries the content of the file that was
\* opened, Err carries the io::ErrorKind.
Ok(data) == [ok |-> TRUE, data |-> data, err |-> "None"]
Err(kind) == [ok |-> FALSE, data |-> <<>>, err |-> kind]

\* The providers: the two test mounts of lib.rs and a PhysicalMount over a
\* folder whose files cannot be opened.
MountKinds == {"EchoMount", "EmptyMount", "PhysicalMount"}

\* tests::EchoMount::open: a file whose content is the path it was given.
EchoMount_open(path) == Ok(path)

\* tests::EmptyMount::open: always NotFound.
EmptyMount_open(path) == Err("NotFound")

\* PhysicalMount::open: the error of File::open is passed on by `?`.
PhysicalMount_open(path) == Err("PermissionDenied")

\* Mount::open, dispatched on the provider behind the Box<dyn Mount>.
Mount_open(mount, path) ==
    CASE mount.kind = "EchoMount" -> EchoMount_open(path)
      [] mount.kind = "EmptyMount" -> EmptyMount_open(path)
      [] mount.kind = "PhysicalMount" -> PhysicalMount_open(path)

NoMount == [id |-> 0, kind |-> "None"]

\* Node::create_dir
create_dir(name) ==
    [name |-> name, kind |-> "Dir", nodes |-> <<>>, mount |-> NoMount]

\* Node::create_mount
create_mount(name, mount) ==
    [name |-> name, kind |-> "Mount", nodes |-> <<>>, mount |-> mount]

\* Node::is_dir
is_dir(node) == node.kind = "Dir"

\* A push that overwrites: the node takes the place of a MountPoint of the
\* same name when the directory has one.
push_overwrite(nodes, node) ==
    IF \E i \in 1..Len(nodes) :
           nodes[i].kind = "Mount" /\ node.kind = "Mount" /\ nodes[i].name = node.name
    THEN LET i == CHOOSE i \in 1..Len(nodes) :
                      nodes[i].kind = "Mount" /\ nodes[i].name = node.name
         IN  [nodes EXCEPT ![i] = node]
    ELSE Append(nodes, node)

\* Vec::push, as in self.nodes.push(node): the node goes last.
push(nodes, node) == Append(nodes, node)

-----------------------------------------------------------------------------
(* src/src/lib.rs: registration                                            *)

\* A find that forgets n.is_dir(): the first node named head, of any kind.
find_any_kind(nodes, head) ==
    IF \E i \in 1..Len(nodes) : nodes[i].name = head
    THEN CHOOSE i \in 1..Len(nodes) :
             nodes[i].name = head /\ \A k \in 1..(i - 1) : nodes[k].name # head
    ELSE 0

\* A find that looks at the newest node only.
find_dir_last(nodes, head) ==
    IF nodes # <<>> /\ is_dir(nodes[Len(nodes)]) /\ nodes[Len(nodes)].name = head
    THEN Len(nodes)
    ELSE 0

\* self.nodes.iter_mut().find(|n| n.is_dir() && n.name == head): the index
\* of the first Directory node named head, 0 when there is none.
find_dir(nodes, head) ==
    IF \E i \in 1..Len(nodes) : is_dir(nodes[i]) /\ nodes[i].name = head
    THEN CHOOSE i \in 1..Len(nodes) :
             /\ is_dir(nodes[i]) /\ nodes[i].name = head
             /\ \A k \in 1..(i - 1) : ~(is_dir(nodes[k]) /\ nodes[k].name = head)
    ELSE 0

\* VirtualDir::mount and Node::mount.  The result is the directory's nodes
\* after the call, and panic = TRUE when Node::mount hit its panic!.
RECURSIVE VirtualDir_mount(_, _, _)
RECURSIVE Node_mount(_, _, _)
VirtualDir_mount(nodes, target, mount) ==
    LET th == take_head(target)
    IN  IF ~th.some
        THEN [nodes |-> push(nodes, create_mount(th.head, mount)),
              panic |-> FALSE]
        ELSE LET maybe_dir == find_dir(nodes, th.head)
             IN  IF maybe_dir # 0
                 THEN LET r == Node_mount(nodes[maybe_dir], th.tail, mount)
                      IN  [nodes |-> [nodes EXCEPT ![maybe_dir] = r.node],
                           panic |-> r.panic]
                 ELSE LET r == Node_mount(create_dir(th.head), th.tail, mount)
                      IN  [nodes |-> push(nodes, r.node), panic |-> r.panic]

Node_mount(node, target, mount) ==
    IF node.kind = "Dir"
    THEN LET r == VirtualDir_mount(node.nodes, target, mount)
         IN  [node |-> [node EXCEPT !.nodes = r.nodes], panic |-> r.panic]
    ELSE [node |-> node, panic |-> TRUE]

\* A VFS::mount that names the root mount "/" instead of "".
VFS_mount_named_slash(nodes, target, mount) ==
    IF iter(target) = <<>>
    THEN [nodes |-> push(nodes, create_mount(<<"/">>, mount)), panic |-> FALSE]
    ELSE VirtualDir_mount(nodes, target, mount)

\* VFS::mount
VFS_mount(nodes, target, mount) ==
    IF iter(target) = <<>>
    THEN [nodes |-> push(nodes, create_mount(<<>>, mount)), panic |-> FALSE]
    ELSE VirtualDir_mount(nodes, target, mount)

-----------------------------------------------------------------------------
(* src/src/lib.rs: resolution                                              *)

\* A forward that never trims, and one that always does.
forward_untrimmed(node, tail, path) == path
forward_trimmed(node, tail, path) == tail

\* The path a candidate is given: `if node.name.is_empty() { tail = path; }`
\* assigns the loop's mutable `tail`, which then stays assigned.
forward(node, tail, path) == IF node.name = <<>> THEN path ELSE tail

\* A retain that keeps the first failure that is not NotFound.
retain_first(file, result) == IF file.err = "NotFound" THEN result ELSE file

\* What the loop of VirtualDir::open returns when every candidate failed:
\* `file`, which holds the result of the last candidate tried.
retain(file, result) == result

\* A find without rev(): the candidates oldest first.
find_oldest_first(nodes, head) ==
    LET matches(i) == nodes[i].name = head \/ nodes[i].name = <<>>
    IN  SelectSeq([i \in 1..Len(nodes) |-> i], matches)

\* A find that chains the empty-named nodes after the candidates, so that
\* they come twice.
find_chained(nodes, head) ==
    LET matches(i) == nodes[i].name = head \/ nodes[i].name = <<>>
        empty(i) == nodes[i].name = <<>>
        rev == [i \in 1..Len(nodes) |-> Len(nodes) + 1 - i]
    IN  SelectSeq(rev, matches) \o SelectSeq(rev, empty)

\* self.nodes.iter().rev().filter(|n| n.name == head || n.name.is_empty()):
\* the indices of the candidates, in the order they are visited.
find(nodes, head) ==
    LET matches(i) == nodes[i].name = head \/ nodes[i].name = <<>>
        rev == [i \in 1..Len(nodes) |-> Len(nodes) + 1 - i]
    IN  SelectSeq(rev, matches)

\* A loop that never returns early.
found_never(file) == FALSE

\* `if file.is_ok() { return file; }`
found(file) == file.ok

\* VirtualDir::open.  The result is [file, calls, tried]: file is the value
\* returned; calls lists the provider calls made, in order, as
\* [id, path, file]; tried lists the candidates of this directory that were
\* visited, in order, as [idx, name, kind, received, forwarded, out], out
\* being the result of the candidate's own dispatch.
\* A provider that is itself a VFS (kind "VFS", its root in the field
\* `root`) is called through `impl Mount for VFS`; the calls made inside it
\* follow the call to it in `calls`.
RECURSIVE VirtualDir_open(_, _)
RECURSIVE open_loop(_, _, _, _, _)
RECURSIVE VFS_open(_, _)
VirtualDir_open(nodes, path) ==
    LET th == take_head(path)
        file == [file |-> Err("NotFound"), calls |-> <<>>, tried |-> <<>>]
    IN  IF th.some
        THEN open_loop(nodes, find(nodes, th.head), th.tail, path, file)
        ELSE file

\* The `for node in find` loop of VirtualDir::open over the candidates left;
\* tail is the loop's mutable variable, acc what has been done so far.
open_loop(nodes, cands, tail, path, acc) ==
    IF cands = <<>> THEN acc
    ELSE LET node == nodes[Head(cands)]
             tail2 == forward(node, tail, path)
             out == IF node.kind = "Mount" /\ node.mount.kind = "VFS"
                    THEN LET r == VFS_open(node.mount.root, tail2)
                         IN  [file |-> r.file,
                              calls |-> <<[id |-> node.mount.id,
                                           path |-> tail2,
                                           file |-> r.file]>> \o r.calls,
                              tried |-> <<>>]
                    ELSE IF node.kind = "Mount"
                    THEN LET f == Mount_open(node.mount, tail2)
                         IN  [file |-> f,
                              calls |-> <<[id |-> node.mount.id,
                                           path |-> tail2, file |-> f]>>,
                              tried |-> <<>>]
                    ELSE VirtualDir_open(node.nodes, tail2)
             acc2 == [file |-> retain(acc.file, out.file),
                      calls |-> acc.calls \o out.calls,
                      tried |-> Append(acc.tried,
                          [idx |-> Head(cands), name |-> node.name,
                           kind |-> node.kind, received |-> path,
                           forwarded |-> tail2, out |-> out])]
         IN  IF found(out.file)
             THEN [acc2 EXCEPT !.file = out.file]
             ELSE open_loop(nodes, Tail(cands), tail2, path, acc2)

\* A VFS::open that takes a segment off the path itself before its root
\* looks at it.
VFS_open_trimmed(nodes, path) == VirtualDir_open(nodes, take_head(path).tail)

\* impl Mount for VFS: open is the root directory's open.
VFS_open(nodes, path) == VirtualDir_open(nodes, path)

-----------------------------------------------------------------------------
(* The inputs                                                              *)

A == <<"a">>
B == <<"b">>
DotDot == <<".", ".">>

\* A path written canonically from its segments: "/" before each segment,
\* "/" alone for no segment.
RECURSIVE Join(_)
Join(segs) ==
    IF segs = <<>> THEN <<"/">>
    ELSE IF Len(segs) = 1 THEN <<"/">> \o Head(segs)
    ELSE <<"/">> \o Head(segs) \o Join(Tail(segs))

\* The calls of mount: every behaviour at "/a" and "/a/a", the two test
\* mounts at "/", a failing provider at "/a/b" and an echo at "/..".
MountInputs ==
    ({Join(<<A>>), Join(<<A, A>>)} \X MountKinds)
        \cup ({Join(<<>>)} \X {"EchoMount", "EmptyMount"})
        \cup {<<Join(<<A, B>>), "EmptyMount">>, <<Join(<<DotDot>>), "EchoMount">>}

\* The paths open is called with.
LookupPaths ==
    { Join(<<A>>), Join(<<A, B>>), Join(<<A, A, B>>), Join(<<A, B, A>>),
      Join(<<B, A>>), Join(<<A, DotDot, B>>), Join(<<DotDot, A>>),
      <<>>,                                            \* ""
      <<"/", "/", "a", "/", ".", "/", "b", "/">>,      \* "//a/./b/"
      <<"a", "/", "a", "/", "/", "b">> }               \* "a/a//b"

-----------------------------------------------------------------------------
(* The state machine                                                       *)

NoOp == [op |-> "none", path |-> <<>>, file |-> Ok(<<>>), calls |-> <<>>,
         tried |-> <<>>]

\* No path function applied yet.
NoOut == [op |-> "none", head |-> <<>>, some |-> FALSE, tail |-> <<>>,
          buf |-> <<>>, ok |-> TRUE]

\* VFS::new for each namespace; no path under test.
Init ==
    /\ root = <<>>
    /\ panicked = FALSE
    /\ registry = <<>>
    /\ last = NoOp
    /\ pin = <<>> /\ pout = NoOut
    /\ inner = <<>> /\ ireg = <<>> /\ flat = <<>> /\ flast = NoOp

\* vfs.mount(target, Box::new(provider of the given kind)).  The provider's
\* id is its rank among the mount calls; mount returns (), recorded as Ok.
Mount(target, kind) ==
    /\ ~panicked
    /\ Len(registry) < MaxMounts
    /\ LET mount == [id |-> Len(registry) + 1, kind |-> kind]
           r == VFS_mount(root, target, mount)
       IN  /\ root' = IF r.panic THEN root ELSE r.nodes
           /\ panicked' = r.panic
    /\ registry' = Append(registry, [path |-> target, kind |-> kind])
    /\ last' = [NoOp EXCEPT !.op = "mount", !.path = target]
    /\ UNCHANGED <<pvars, nvars>>

\* vfs.open(path)
Open(path) ==
    /\ ~panicked
    /\ LET r == VFS_open(root, path)
       IN  last' = [op |-> "open", path |-> path, file |-> r.file,
                    calls |-> r.calls, tried |-> r.tried]
    /\ UNCHANGED <<root, panicked, registry, pvars, nvars>>

Next ==
    \/ \E in \in MountInputs : Mount(in[1], in[2])
    \/ \E path \in LookupPaths : Open(path)

Spec == Init /\ [][Next]_vars

-----------------------------------------------------------------------------
(* The path functions on their own                                         *)

\* The longest path text tried.
MaxLen == 6

\* The characters of the path texts tried.
PathChars == {"/", ".", "a", "b"}

\* Every text of at most MaxLen characters.
Paths == UNION {[1..n -> PathChars] : n \in 0..MaxLen}

\* VfsPath::new(text), nothing applied to it yet.
InitPath ==
    /\ root = <<>> /\ panicked = FALSE /\ registry = <<>> /\ last = NoOp
    /\ inner = <<>> /\ ireg = <<>> /\ flat = <<>> /\ flast = NoOp
    /\ pin \in Paths
    /\ pout = NoOut

\* path.take_head()
TakeHead ==
    /\ LET th == take_head(pin)
       IN  pout' = [NoOut EXCEPT !.op = "take_head", !.head = th.head,
                                 !.some = th.some, !.tail = th.tail]
    /\ UNCHANGED <<root, panicked, registry, last, pin, nvars>>

\* path.canonicalize()
Canonicalize ==
    /\ pout' = [NoOut EXCEPT !.op = "canonicalize", !.buf = canonicalize(pin)]
    /\ UNCHANGED <<root, panicked, registry, last, pin, nvars>>

\* path.validate(): Ok(self) or Err(())
Validate ==
    /\ pout' = [NoOut EXCEPT !.op = "validate", !.ok = validate(pin),
                             !.buf = IF validate(pin) THEN pin ELSE <<>>]
    /\ UNCHANGED <<root, panicked, registry, last, pin, nvars>>

NextPath == TakeHead \/ Canonicalize \/ Validate

SpecPath == InitPath /\ [][NextPath]_vars

-----------------------------------------------------------------------------
(* A namespace mounted in a namespace                                      *)

\* The paths N is mounted at in the parent, the paths M is mounted at in N,
\* and the paths S looked up below them, by their segments.
NestedAt == {<<>>, <<A>>, <<A, B>>}
InnerAt == {<<>>, <<A>>, <<B, A>>}
BelowAt == {<<B>>, <<A, B>>}

\* The paths opened: every P/Q/S, one outside of them and one with noise.
NestedLookups ==
    {Join(P \o Q \o S) : P \in NestedAt, Q \in InnerAt, S \in BelowAt}
        \cup {Join(<<B, B>>), <<"a", "/", "/", "b", "/", ".", "/", "a", "/", "b">>}

\* n.mount(Q, Box::new(M)) on the VFS N, which holds nothing yet and is not
\* mounted yet.  M has id 1.
InnerMount(Q, kind) ==
    /\ ireg = <<>> /\ registry = <<>>
    /\ inner' = VFS_mount(inner, Q, [id |-> 1, kind |-> kind]).nodes
    /\ ireg' = <<[path |-> Q, kind |-> kind]>>
    /\ UNCHANGED <<root, panicked, registry, last, pvars, flat, flast>>

\* vfs.mount(P, Box::new(n)): N, with M inside, is moved into the parent.
\* N has id 2.
NestMount(P) ==
    /\ ireg # <<>> /\ registry = <<>>
    /\ LET r == VFS_mount(root, P, [id |-> 2, kind |-> "VFS", root |-> inner])
       IN  root' = r.nodes /\ panicked' = r.panic
    /\ registry' = <<[path |-> P, kind |-> "VFS"]>>
    /\ inner' = <<>>
    /\ last' = [NoOp EXCEPT !.op = "mount", !.path = P]
    /\ UNCHANGED <<pvars, ireg, flat, flast>>

\* flat.mount(P + Q, Box::new(M)) on a VFS of its own.
FlatMount ==
    /\ registry # <<>> /\ flat = <<>>
    /\ flat' = VFS_mount(flat, registry[1].path \o ireg[1].path,
                         [id |-> 1, kind |-> ireg[1].kind]).nodes
    /\ UNCHANGED <<root, panicked, registry, last, pvars, inner, ireg, flast>>

\* flat.open(path)
OpenFlat(path) ==
    /\ flat # <<>>
    /\ LET r == VFS_open(flat, path)
       IN  flast' = [op |-> "open", path |-> path, file |-> r.file,
                     calls |-> r.calls, tried |-> r.tried]
    /\ UNCHANGED <<root, panicked, registry, last, pvars, inner, ireg, flat>>

NextNested ==
    \/ \E Q \in InnerAt, kind \in MountKinds : InnerMount(Join(Q), kind)
    \/ \E P \in NestedAt : NestMount(Join(P))
    \/ FlatMount
    \/ \E path \in NestedLookups : Open(path)
    \/ \E path \in NestedLookups : OpenFlat(path)

SpecNested == Init /\ [][NextNested]_vars

-----------------------------------------------------------------------------
(* The namespace under every spelling of the root                          *)

\* The calls of mount that spell the root and its neighbours: "", "/",
\* "/./", "/a", "/./a/" and "/a/./b", each with a failing provider, and an
\* echo at "/".
SentinelInputs ==
    ({ <<>>, Join(<<>>), <<"/", ".", "/">>, Join(<<A>>),
       <<"/", ".", "/", "a", "/">>, <<"/", "a", "/", ".", "/", "b">> }
         \X {"EmptyMount"})
        \cup {<<Join(<<>>), "EchoMount">>}

\* The namespace under mounts that spell the root in every way.
NextSentinel ==
    \/ \E in \in SentinelInputs : Mount(in[1], in[2])
    \/ \E path \in LookupPaths : Open(path)

SpecSentinel == Init /\ [][NextSentinel]_vars

-----------------------------------------------------------------------------
(* Vocabulary of the properties                                            *)

IsOpen == last.op = "open"
IsMount == last.op = "mount"

\* s is a prefix of t, a proper one, and f is a suffix of t.
IsPrefix(s, t) == Len(s) <= Len(t) /\ SubSeq(t, 1, Len(s)) = s
IsProperPrefix(s, t) == Len(s) < Len(t) /\ SubSeq(t, 1, Len(s)) = s
IsSuffix(f, t) ==
    Len(f) <= Len(t) /\ SubSeq(t, Len(t) - Len(f) + 1, Len(t)) = f

\* The significant segments of the path the i-th mount call was given.
RegSegs(i) == iter(registry[i].path)

\* The provider the i-th mount call registered.
Provider(i) == [id |-> i, kind |-> registry[i].kind]

\* The i-th mount was at the root; the lookup of the last open lies below
\* the path of the i-th mount.
AtRoot(i) == RegSegs(i) = <<>>
Below(i) == IsProperPrefix(RegSegs(i), iter(last.path))

\* Some segment of the path is "..".
HasDotDot(p) == \E k \in 1..Len(split(p)) : split(p)[k] = DotDot

\* No path given to mount so far, nor the path of the last operation, has a
\* ".." segment.
NoDotDotSoFar ==
    /\ ~HasDotDot(last.path)
    /\ \A i \in 1..Len(registry) : ~HasDotDot(registry[i].path)

\* The directory of the tree that holds the node of the i-th mount: the
\* segments of its path but the last.
DirOf(i) ==
    IF AtRoot(i) THEN <<>> ELSE SubSeq(RegSegs(i), 1, Len(RegSegs(i)) - 1)

\* The provider of the i-th mount was called by the last open.
Called(i) == \E k \in 1..Len(last.calls) : last.calls[k].id = i

\* Every candidate visit of an open, the nested directories' included.
RECURSIVE Visits(_)
Visits(tried) ==
    IF tried = <<>> THEN <<>>
    ELSE <<Head(tried)>> \o Visits(Head(tried).out.tried) \o Visits(Tail(tried))

\* Every node of a tree, the nested directories' included.
RECURSIVE Nodes(_)
Nodes(nodes) ==
    IF nodes = <<>> THEN <<>>
    ELSE <<Head(nodes)>> \o Nodes(Head(nodes).nodes) \o Nodes(Tail(nodes))

\* The registrations a tree holds: <<segments of the path, provider id>>.
RECURSIVE Registered(_, _)
Registered(nodes, at) ==
    UNION { IF nodes[i].kind = "Mount"
            THEN {<<IF nodes[i].name = <<>> THEN at
                    ELSE Append(at, nodes[i].name), nodes[i].mount.id>>}
            ELSE Registered(nodes[i].nodes, Append(at, nodes[i].name))
            : i \in 1..Len(nodes) }

-----------------------------------------------------------------------------
(* C1                                                                      *)

\* C1: in a namespace whose only registration is provider M at a path P with
\* at least one significant segment, open of a path whose segments are P's
\* followed by at least one more calls M exactly once, with the part of the
\* lookup path that follows P's segments, and returns M's result.
C1_SingleMountDispatch ==
    (IsOpen /\ Len(registry) = 1 /\ ~AtRoot(1) /\ Below(1)) =>
        /\ Len(last.calls) = 1
        /\ last.calls[1].id = 1
        /\ IsSuffix(last.calls[1].path, last.path)
        /\ iter(last.calls[1].path)
               = SubSeq(iter(last.path), Len(RegSegs(1)) + 1,
                        Len(iter(last.path)))
        /\ last.file = Mount_open(Provider(1), last.calls[1].path)

\* An echo mounted alone at "/a/a" has answered open("/a/a/b") with "/b".
C1_Witness ==
    /\ IsOpen /\ Len(registry) = 1 /\ ~AtRoot(1) /\ Below(1)
    /\ Len(RegSegs(1)) = 2
    /\ last.file = Ok(Join(<<B>>))

-----------------------------------------------------------------------------
(* C2                                                                      *)

\* The namespace holds exactly mount(P, A) followed by mount(P, B), and the
\* last operation was an open of a path below P.
C2_Case ==
    /\ IsOpen /\ Len(registry) = 2
    /\ registry[1].path = registry[2].path
    /\ Below(1)

\* B (id 2) is called first; if it succeeds its result is returned and A
\* (id 1) is not called; if it fails A is called next and A's result is
\* returned.
C2_Precedence ==
    /\ last.calls # <<>>
    /\ last.calls[1].id = 2
    /\ last.calls[1].file.ok =>
           Len(last.calls) = 1 /\ last.file = last.calls[1].file
    /\ ~last.calls[1].file.ok =>
           /\ Len(last.calls) = 2
           /\ last.calls[2].id = 1
           /\ last.file = last.calls[2].file

\* C2 as claimed: after mount(P, A) and mount(P, B), open(P/x) calls B
\* before A, returns B's result when B succeeds without calling A, and
\* calls A and returns A's result only when B fails.
C2_Claim == C2_Case => C2_Precedence

\* C2, amended: the same, for every lookup P/x that has at least two
\* significant segments (P is not the root, or x has two segments).
C2_OverlayPrecedence ==
    (C2_Case /\ Len(iter(last.path)) >= 2) => C2_Precedence

\* B failed at "/a", A was called after it and its answer returned.
C2_Witness ==
    /\ C2_Case /\ Len(iter(last.path)) >= 2
    /\ ~AtRoot(1)
    /\ Len(last.calls) = 2
    /\ last.file.ok

-----------------------------------------------------------------------------
(* C3                                                                      *)

\* C3: every candidate visited by open is forwarded a path chosen for that
\* candidate alone: the path the directory's open received when its name is
\* empty, the tail of that path otherwise.
C3_Claim ==
    (IsOpen /\ NoDotDotSoFar) =>
        \A k \in 1..Len(Visits(last.tried)) :
            LET v == Visits(last.tried)[k]
            IN  v.forwarded = IF v.name = <<>> THEN v.received
                              ELSE take_head(v.received).tail
-----------------------------------------------------------------------------
(* C4                                                                      *)

-----------------------------------------------------------------------------
(* C5                                                                      *)

\* C5: whenever a provider registered at the root is called during
\* open(p), the path it is given is p itself.
C5_RootReceivesFullPath ==
    IsOpen =>
        \A k \in 1..Len(last.calls) :
            AtRoot(last.calls[k].id) => last.calls[k].path = last.path

\* A root provider was called with a three-segment path after a provider
\* two levels down had been given a trimmed one.
C5_Witness ==
    /\ IsOpen
    /\ Len(iter(last.path)) = 3
    /\ Len(last.calls) = 2
    /\ Len(RegSegs(last.calls[1].id)) = 2
    /\ last.calls[1].path # last.path
    /\ AtRoot(last.calls[2].id)
    /\ last.file = Ok(last.path)

-----------------------------------------------------------------------------
(* C6                                                                      *)

\* C6: with an always-succeeding provider at "/" and only failing providers
\* at the more specific registrations matching the lookup path p, open(p),
\* p of two segments or more, returns the root provider's result for p.
C6_Claim ==
    (/\ IsOpen /\ NoDotDotSoFar
     /\ Len(iter(last.path)) >= 2
     /\ \E i \in 1..Len(registry) : AtRoot(i) /\ registry[i].kind = "EchoMount"
     /\ \A i \in 1..Len(registry) :
            (~AtRoot(i) /\ IsPrefix(RegSegs(i), iter(last.path)))
                => registry[i].kind # "EchoMount")
        => last.file = EchoMount_open(last.path)

-----------------------------------------------------------------------------
(* C7                                                                      *)

\* C7: mount and open of a path with a ".." segment fail with InvalidPath,
\* no node is named ".." and no provider is given a path with a ".."
\* segment.
C7_Claim ==
    /\ (IsMount /\ HasDotDot(last.path)) => last.file = Err("InvalidPath")
    /\ (IsOpen /\ HasDotDot(last.path)) => last.file = Err("InvalidPath")
    /\ \A k \in 1..Len(Nodes(root)) : Nodes(root)[k].name # DotDot
    /\ \A k \in 1..Len(last.calls) : ~HasDotDot(last.calls[k].path)

-----------------------------------------------------------------------------
(* C8                                                                      *)

\* The last mount had to descend through a segment that named a MountPoint
\* and no Directory: an earlier mount is at a proper prefix of its path, and
\* no earlier mount went below that prefix.
C8_ThroughMountPoint ==
    /\ IsMount
    /\ \E i \in 1..(Len(registry) - 1) :
           /\ ~AtRoot(i)
           /\ IsProperPrefix(RegSegs(i), RegSegs(Len(registry)))
           /\ \A j \in 1..(Len(registry) - 1) :
                  ~IsProperPrefix(RegSegs(i), RegSegs(j))

\* The provider of the last mount is in the tree, at the segments of the
\* path it was mounted at.
C8_Succeeded ==
    /\ ~panicked
    /\ <<RegSegs(Len(registry)), Len(registry)>> \in Registered(root, <<>>)

-----------------------------------------------------------------------------
(* C9                                                                      *)

\* Every node of old is still in new, at the same place among its siblings
\* and with the same name, kind and provider; directories may have grown.
RECURSIVE Extends(_, _)
Extends(old, new) ==
    /\ Len(old) <= Len(new)
    /\ \A i \in 1..Len(old) :
           /\ new[i].name = old[i].name
           /\ new[i].kind = old[i].kind
           /\ new[i].mount = old[i].mount
           /\ Extends(old[i].nodes, new[i].nodes)

\* The namespace holds k >= 2 mounts, all at one path P, and the last
\* operation was an open of a path of two segments or more below P.
C9_Case ==
    /\ IsOpen /\ Len(registry) >= 2
    /\ \A i \in 1..Len(registry) : registry[i].path = registry[1].path
    /\ Below(1) /\ Len(iter(last.path)) >= 2

\* Each of the k providers is in the tree and was called if every newer one
\* fails.
C9_AllReached ==
    C9_Case =>
        \A i \in 1..Len(registry) :
            /\ <<RegSegs(i), i>> \in Registered(root, <<>>)
            /\ (\A j \in (i + 1)..Len(registry) : registry[j].kind # "EchoMount")
                   => Called(i)

-----------------------------------------------------------------------------
(* C10                                                                     *)

\* In the open of one directory and of every directory visited below it:
\* with no tail or no candidate the result is NotFound and nothing was
\* tried; a failure returned is the failure of the candidate tried last,
\* which is the oldest node of the directory that matches.
RECURSIVE LastTriedWins(_, _, _)
LastTriedWins(nodes, path, out) ==
    LET th == take_head(path)
        cands == {i \in 1..Len(nodes) :
                      nodes[i].name = th.head \/ nodes[i].name = <<>>}
        n == Len(out.tried)
    IN  /\ (~th.some \/ cands = {}) => (out.file = Err("NotFound") /\ n = 0)
        /\ (~out.file.ok /\ n > 0) =>
               /\ out.file = out.tried[n].out.file
               /\ \A i \in cands : out.tried[n].idx <= i
        /\ \A k \in 1..n :
               out.tried[k].kind = "Dir" =>
                   LastTriedWins(nodes[out.tried[k].idx].nodes,
                                 out.tried[k].forwarded, out.tried[k].out)

\* C10: when no candidate succeeds open returns the failure of the candidate
\* tried last, the oldest matching node of the directory; with no candidate
\* at all it returns NotFound.
C10_LastFailureReturned ==
    IsOpen => LastTriedWins(root, last.path,
                            [file |-> last.file, tried |-> last.tried])

\* Two candidates failed differently and the failure of the second, the
\* older, was returned.
C10_Witness ==
    /\ IsOpen /\ ~last.file.ok
    /\ Len(last.tried) = 2
    /\ last.tried[1].out.file.err = "PermissionDenied"
    /\ last.file = Err("NotFound")
    /\ last.tried[2].kind = "Mount"
-----------------------------------------------------------------------------
(* C11                                                                     *)

\* C11: the open of a directory, the root or one visited below it, with a
\* path of fewer than two significant segments returns NotFound and calls
\* no provider, whatever the directory holds.
C11_DirectoriesNotReadable ==
    IsOpen =>
        /\ Len(iter(last.path)) < 2 =>
               /\ last.file = Err("NotFound")
               /\ last.calls = <<>> /\ last.tried = <<>>
        /\ \A k \in 1..Len(Visits(last.tried)) :
               LET v == Visits(last.tried)[k]
               IN  (v.kind = "Dir" /\ Len(iter(v.forwarded)) < 2) =>
                       /\ v.out.file = Err("NotFound")
                       /\ v.out.calls = <<>> /\ v.out.tried = <<>>

\* open("/a") was answered NotFound without a call by a root that holds an
\* echo at "/" and an echo at "/a".
C11_Witness ==
    /\ IsOpen /\ Len(iter(last.path)) = 1
    /\ last.file = Err("NotFound") /\ last.calls = <<>>
    /\ \E i, j \in 1..Len(registry) :
           /\ AtRoot(i) /\ registry[i].kind = "EchoMount"
           /\ RegSegs(j) = iter(last.path) /\ registry[j].kind = "EchoMount"

-----------------------------------------------------------------------------
(* C17                                                                     *)

\* No two Directory nodes of one directory share a name, here and in every
\* directory below.
RECURSIVE UniqueDirs(_)
UniqueDirs(nodes) ==
    /\ \A i, j \in 1..Len(nodes) :
           (i # j /\ is_dir(nodes[i]) /\ is_dir(nodes[j]))
               => nodes[i].name # nodes[j].name
    /\ \A i \in 1..Len(nodes) : UniqueDirs(nodes[i].nodes)

\* C17: after any sequence of mounts every directory of the tree holds at
\* most one Directory child per name; MountPoint children may share a name
\* with each other and with that Directory.
C17_DirectoryUniqueness == UniqueDirs(root)

\* Two mounts went through "/a", which a MountPoint already named: the root
\* holds MountPoint "a" and one Directory "a" with both of them inside.
C17_Witness ==
    /\ Len(root) = 2
    /\ root[1].kind = "Mount" /\ root[2].kind = "Dir"
    /\ root[1].name = root[2].name
    /\ Len(root[2].nodes) = 2
    /\ root[2].nodes[1].name = root[2].nodes[2].name

-----------------------------------------------------------------------------
(* C19                                                                     *)

\* C19: an open ends with a resource or with a failure, and has called each
\* registered provider at most once.
C19_BoundedDispatch ==
    IsOpen =>
        /\ \/ last.file.ok /\ last.file.err = "None"
           \/ ~last.file.ok /\ last.file.err \in {"NotFound", "PermissionDenied"}
        /\ \A k \in 1..Len(last.calls) : last.calls[k].id \in 1..Len(registry)
        /\ \A k1, k2 \in 1..Len(last.calls) :
               last.calls[k1].id = last.calls[k2].id => k1 = k2

\* An open that failed after it had called each of three providers.
C19_Witness ==
    /\ IsOpen /\ ~last.file.ok
    /\ Len(registry) = 3
    /\ \A i \in 1..3 : Called(i)
-----------------------------------------------------------------------------
(* C18                                                                     *)

\* No node of these directories, at any depth, has the empty name.
AllNamed(nodes) == \A k \in 1..Len(Nodes(nodes)) : Nodes(nodes)[k].name # <<>>

\* C18: an empty-named node is a direct child of the root and a MountPoint;
\* the empty-named nodes are exactly the providers of the mounts whose target
\* has no significant segment; every node below the root and every Directory
\* has a name.
C18_SentinelPlacement ==
    /\ \A i \in 1..Len(root) :
           /\ root[i].name = <<>> => root[i].kind = "Mount"
           /\ AllNamed(root[i].nodes)
    /\ {root[i].mount.id : i \in {k \in 1..Len(root) : root[k].name = <<>>}}
           = {i \in 1..Len(registry) : split(registry[i].path) \in Seq({<<>>, <<".">>})}
    /\ Cardinality({k \in 1..Len(root) : root[k].name = <<>>})
           = Cardinality({i \in 1..Len(registry) :
                              split(registry[i].path) \in Seq({<<>>, <<".">>})})

\* After mount(""), mount("/./") and mount("/a/./b") the root holds two
\* empty-named MountPoints and the Directory "a".
C18_Witness ==
    /\ Len(registry) = 3
    /\ registry[1].path = <<>>
    /\ registry[2].path = <<"/", ".", "/">>
    /\ Len(iter(registry[3].path)) = 2
    /\ Len(root) = 3
    /\ root[1].name = <<>> /\ root[2].name = <<>>
    /\ root[3].kind = "Dir"
-----------------------------------------------------------------------------
(* C13                                                                     *)

\* C13: for a path with a significant segment take_head gives the first one
\* as head, a tail of None exactly when no other follows, and "/" + head +
\* tail is canonically the path; for a path without one it gives ("", None).
C13_TakeHeadComposition ==
    pout.op = "take_head" =>
        IF iter(pin) = <<>>
        THEN pout.head = <<>> /\ ~pout.some
        ELSE /\ pout.head = iter(pin)[1]
             /\ pout.some <=> Len(iter(pin)) >= 2
             /\ ~pout.some => pout.tail = <<>>
             /\ canonicalize(<<"/">> \o pout.head \o pout.tail)
                    = canonicalize(pin)

\* take_head has split a path that starts with noise and has two segments
\* into its head and a tail that still has its leading slash.
C13_Witness ==
    /\ pout.op = "take_head"
    /\ Len(iter(pin)) = 2 /\ pin[1] = "."
    /\ pout.some /\ pout.tail[1] = "/"
    /\ pout.head = <<"a">>

-----------------------------------------------------------------------------
(* C14                                                                     *)

\* C14: canonicalize(canonicalize(p)) = canonicalize(p).
C14_CanonicalizeIdempotent ==
    pout.op = "canonicalize" => canonicalize(pout.buf) = pout.buf

\* canonicalize has changed a path of two segments.
C14_Witness ==
    /\ pout.op = "canonicalize"
    /\ pout.buf # pin
    /\ Len(iter(pin)) = 2

-----------------------------------------------------------------------------
(* C15                                                                     *)

\* C15: canonicalize(p) is "/" followed by the significant segments of p in
\* order, joined by single "/", without a trailing slash; "/" when p has
\* none; and it iterates as p does.
C15_CanonicalForm ==
    pout.op = "canonicalize" =>
        LET buf == pout.buf
        IN  /\ buf = Join(iter(pin))
            /\ buf[1] = "/"
            /\ Len(buf) > 1 => buf[Len(buf)] # "/"
            /\ \A i \in 1..(Len(buf) - 1) : ~(buf[i] = "/" /\ buf[i + 1] = "/")
            /\ Len(buf) > 1 =>
                   \A k \in 2..Len(split(buf)) :
                       split(buf)[k] # <<>> /\ split(buf)[k] # <<".">>
            /\ iter(pin) = <<>> <=> buf = <<"/">>
            /\ iter(buf) = iter(pin)

\* "./a//b" has been canonicalized to "/a/b".
C15_Witness ==
    /\ pout.op = "canonicalize"
    /\ pin = <<".", "/", "a", "/", "/", "b">>
    /\ pout.buf = <<"/", "a", "/", "b">>

-----------------------------------------------------------------------------
(* C16                                                                     *)

\* C16: validate(p) fails exactly when a '/'-delimited segment of p is "..",
\* and otherwise returns p itself.
C16_ValidateExact ==
    pout.op = "validate" =>
        /\ pout.ok <=> ~HasDotDot(pin)
        /\ pout.ok => pout.buf = pin

\* validate has accepted "a..b/..." .
C16_Witness ==
    /\ pout.op = "validate"
    /\ pout.ok
    /\ pin = <<"a", ".", ".", "b">> \o <<"/">> \o <<".">>

\* validate has rejected "a/../b".
C16_WitnessRejected ==
    /\ pout.op = "validate"
    /\ ~pout.ok
    /\ pin = <<"a", "/", ".", ".", "/", "b">>
-----------------------------------------------------------------------------
(* C12                                                                     *)

\* The calls of a log that went to the provider with the given id.
CallsTo(calls, id) ==
    SelectSeq(calls, LAMBDA c : c.id = id)

\* N (id 2), holding M (id 1) at Q, is mounted at P; the flat namespace holds
\* M at P/Q; both have been opened with the same path P/Q/S, S not empty.
C12_Case ==
    /\ IsOpen /\ flast.op = "open" /\ last.path = flast.path
    /\ IsProperPrefix(iter(registry[1].path) \o iter(ireg[1].path),
                      iter(last.path))

\* The segments of S, and those of Q/S.
C12_S ==
    SubSeq(iter(last.path),
           Len(iter(registry[1].path)) + Len(iter(ireg[1].path)) + 1,
           Len(iter(last.path)))
C12_QS ==
    SubSeq(iter(last.path), Len(iter(registry[1].path)) + 1,
           Len(iter(last.path)))

\* The two namespaces have made the same call to M, or none, and returned
\* the same result.
C12_Equivalent ==
    /\ CallsTo(last.calls, 1) = flast.calls
    /\ last.file = flast.file

\* The parent has called N once, with Q/S; N has called M once, with S; the
\* flat namespace has called M with the same path, and both return M's
\* result.
C12_SameAsFlat ==
    /\ Len(CallsTo(last.calls, 2)) = 1
    /\ IsSuffix(CallsTo(last.calls, 2)[1].path, last.path)
    /\ iter(CallsTo(last.calls, 2)[1].path) = C12_QS
    /\ Len(CallsTo(last.calls, 1)) = 1
    /\ iter(CallsTo(last.calls, 1)[1].path) = C12_S
    /\ last.file = CallsTo(last.calls, 1)[1].file
    /\ C12_Equivalent

\* C12 as claimed: with N mounted at P and M at Q inside N, the parent's
\* open(P/Q/S) yields the same call to M and the same result as the flat
\* namespace with M at P/Q.
C12_Claim == C12_Case => C12_Equivalent

\* C12, amended: when Q has at least one significant segment or S has at
\* least two, the parent forwards Q/S to N, N calls M.open(S), and call and
\* result are those of the flat namespace; when P is the root the two
\* namespaces agree for every S.
C12_RecursiveComposition ==
    C12_Case =>
        /\ (iter(ireg[1].path) # <<>> \/ Len(C12_S) >= 2) => C12_SameAsFlat
        /\ iter(registry[1].path) = <<>> => C12_Equivalent

\* An echo at "/b/a" inside N, N at "/a/b": open("/a/b/b/a/a/b") has
\* returned "/a/b" from both namespaces.
C12_Witness ==
    /\ C12_Case
    /\ Len(iter(registry[1].path)) = 2 /\ Len(iter(ireg[1].path)) = 2
    /\ last.file = Ok(Join(<<A, B>>))
    /\ flast.file = last.file
    /\ Len(last.calls) = 2

====
